---- MODULE Spec2Model ----
(***************************************************************************)
(* Model of python-example/kafka_benchmark.py: the KafkaBenchmark test     *)
(* runner and suite orchestrator, the two stdout parsers, save_results and *)
(* the summary part of ReportGenerator.                                    *)
(*                                                                         *)
(* Text is modelled structurally.  A character is a one-character string,  *)
(* a word is a sequence of characters or the one-element sequence holding  *)
(* a literal phrase of the producer pattern.  Floats are fixed-point       *)
(* integers in units of 1/Scale.  A Python dict is a function whose        *)
(* DOMAIN is the set of keys present.                                      *)
(***************************************************************************)
EXTENDS Integers, Sequences, FiniteSets, TLC

VARIABLES
    pc,                 \* position of the thread of control
    producer_configs,   \* argument of run_test_suite
    consumer_configs,   \* argument of run_test_suite ([none |-> TRUE] for None)
    idx,                \* index of the config the current for-loop is at
    results,            \* KafkaBenchmark.results
    returned,           \* return values of run_*_test, in call order
    endings,            \* how each subprocess.run call ended, in call order
    invocations,        \* subprocess.run calls, in call order
    running,            \* number of external processes alive
    now,                \* wall clock, seconds
    start_time,         \* start_time local of the test in progress
    last_end,           \* clock value when the last subprocess.run ended
    saved,              \* the file save_results writes
    report,             \* result of generate_html_report
    output,             \* argument of the parser under study
    metrics             \* result of the parser under study

vars == <<pc, producer_configs, consumer_configs, idx, results, returned, endings,
          invocations, running, now, start_time, last_end, saved, report,
          output, metrics>>

suiteVars == <<producer_configs, consumer_configs, idx, results, returned, endings,
               invocations, running, now, start_time, last_end, saved, report>>

----------------------------------------------------------------------------
(* Bounds *)

MaxNumLen == 2
MaxProducers == 2
MaxConsumers == 1
MaxOutcomes == 3
MaxLines == 3
MaxFields == 11

(* Program constants *)

TimeoutSecs == 300
CooldownSecs == 2
NumRecords == 1000000
RecordSize == 1024

----------------------------------------------------------------------------
(* Characters and float conversion *)

Digits == {"1", "2"}

DigitVal(c) == IF c = "1" THEN 1 ELSE 2

RECURSIVE Pow10(_)
Pow10(n) == IF n = 0 THEN 1 ELSE 10 * Pow10(n - 1)

Scale == Pow10(MaxNumLen)

RECURSIVE IntOf(_)
IntOf(s) == IF s = <<>> THEN 0
            ELSE 10 * IntOf(SubSeq(s, 1, Len(s) - 1)) + DigitVal(s[Len(s)])

RECURSIVE LStrip(_)
LStrip(s) == IF s # <<>> /\ Head(s) = " " THEN LStrip(Tail(s)) ELSE s

RECURSIVE RStrip(_)
RStrip(s) == IF s # <<>> /\ s[Len(s)] = " "
             THEN RStrip(SubSeq(s, 1, Len(s) - 1)) ELSE s

Strip(s) == RStrip(LStrip(s))

Unsigned(s) == IF s # <<>> /\ Head(s) = "-" THEN Tail(s) ELSE s

DotPositions(s) == {i \in 1..Len(s) : s[i] = "."}

\* float(s) succeeds
IsFloat(s) ==
    LET b == Unsigned(Strip(s))
    IN  /\ \A i \in 1..Len(b) : b[i] \in Digits \cup {"."}
        /\ Cardinality(DotPositions(b)) <= 1
        /\ \E i \in 1..Len(b) : b[i] \in Digits

\* float(s), in units of 1/Scale
FloatVal(s) ==
    LET t == Strip(s)
        b == Unsigned(t)
        d == IF DotPositions(b) = {} THEN Len(b) + 1
             ELSE CHOOSE i \in DotPositions(b) : TRUE
        whole == SubSeq(b, 1, d - 1)
        frac == SubSeq(b, d + 1, Len(b))
        mag == IntOf(whole) * Scale + (IntOf(frac) * Scale) \div Pow10(Len(frac))
    IN  IF t # b THEN 0 - mag ELSE mag

----------------------------------------------------------------------------
(* dict helpers *)

EmptyDict == [k \in {} |-> 0]

\* dict.update: d with the items of e put in (each argument is bound, so
\* that it is evaluated once)
Update(d, e) ==
    CHOOSE u \in {[k \in DOMAIN dd \cup DOMAIN ee |-> IF k \in DOMAIN ee THEN ee[k] ELSE dd[k]] :
                     dd \in {d}, ee \in {e}} : TRUE

----------------------------------------------------------------------------
(* KafkaBenchmark._parse_producer_output *)

RECURSIVE TrailingDigits(_)
\* what (\d+) captures at the end of a word that is followed by white space
TrailingDigits(w) ==
    IF w = <<>> \/ w[Len(w)] \notin Digits THEN <<>>
    ELSE Append(TrailingDigits(SubSeq(w, 1, Len(w) - 1)), w[Len(w)])

\* the word matches [\d.]+
IsNumWord(w) == w # <<>> /\ \A i \in 1..Len(w) : w[i] \in Digits \cup {"."}

\* the pattern matches the words starting at word i
MatchAt(out, i) ==
    /\ i + 10 <= Len(out)
    /\ TrailingDigits(out[i]) # <<>>
    /\ out[i + 1] = <<"records sent,">>
    /\ IsNumWord(out[i + 2])
    /\ out[i + 3] = <<"records/sec">>
    /\ out[i + 4] = <<"(">>
    /\ IsNumWord(out[i + 5])
    /\ out[i + 6] = <<"MB/sec),">>
    /\ IsNumWord(out[i + 7])
    /\ out[i + 8] = <<"ms avg latency,">>
    /\ IsNumWord(out[i + 9])
    /\ out[i + 10] = <<"ms max latency">>

\* re.search: the word the leftmost match starts at, 0 when there is none
Search(out) ==
    IF \E i \in 1..Len(out) : MatchAt(out, i)
    THEN CHOOSE i \in 1..Len(out) :
            MatchAt(out, i) /\ \A k \in 1..(i - 1) : ~MatchAt(out, k)
    ELSE 0

\* capture groups 1-5 of the match starting at word i
Groups(out, i) == <<TrailingDigits(out[i]), out[i + 2], out[i + 5], out[i + 7], out[i + 9]>>

ProducerFields ==
    <<"records_sent", "records_per_sec", "throughput_mb_sec",
      "avg_latency_ms", "max_latency_ms">>

\* the function raises ValueError: a captured group is no float
parse_producer_raises(out) ==
    \E i \in {Search(out)} :
        i # 0 /\ \E g \in {Groups(out, i)} : \E k \in 1..5 : ~IsFloat(g[k])

\* lines 136-140: metrics[field k] = float(match.group(k))
GroupFloats(g) ==
    [f \in {ProducerFields[k] : k \in 1..5} |->
        FloatVal(g[CHOOSE k \in 1..5 : ProducerFields[k] = f])]

\* the returned dict (defined when the function does not raise)
parse_producer_output(out) ==
    CHOOSE m \in {IF i = 0 THEN EmptyDict ELSE GroupFloats(Groups(out, i)) :
                    i \in {Search(out)}} : TRUE

----------------------------------------------------------------------------
(* KafkaBenchmark._parse_consumer_output                                   *)
(* The output is a sequence of lines, a line the sequence of its           *)
(* comma-separated fields, a field a sequence of characters; the phrase    *)
(* 'start.time' is one character.                                          *)

IsBlank(line) == Len(line) = 1 /\ Strip(line[1]) = <<>>

\* line.startswith('start.time')
IsHeader(line) == line[1] # <<>> /\ line[1][1] = "start.time"

RECURSIVE DropLeadingBlank(_)
DropLeadingBlank(ls) ==
    IF ls # <<>> /\ IsBlank(Head(ls)) THEN DropLeadingBlank(Tail(ls)) ELSE ls

RECURSIVE DropTrailingBlank(_)
DropTrailingBlank(ls) ==
    IF ls # <<>> /\ IsBlank(ls[Len(ls)])
    THEN DropTrailingBlank(SubSeq(ls, 1, Len(ls) - 1)) ELSE ls

\* output.strip().split('\n')
StripSplit(out) ==
    LET ls == DropTrailingBlank(DropLeadingBlank(out))
        l1 == IF ls = <<>> THEN ls
              ELSE [ls EXCEPT ![1] = [@ EXCEPT ![1] = LStrip(@)]]
        l2 == IF ls = <<>> THEN ls
              ELSE [l1 EXCEPT ![Len(l1)] = [@ EXCEPT ![Len(@)] = RStrip(@)]]
    IN  IF ls = <<>> THEN << << <<>> >> >> ELSE l2

\* the lines the reversed scan does not skip
Candidates(lines) == {i \in 1..Len(lines) : ~IsBlank(lines[i]) /\ ~IsHeader(lines[i])}

\* the assignments with the two timing fields taken from eight fields on
AssignmentsFromEight(n) ==
    <<  <<"data_consumed_mb", 3>>, <<"throughput_mb_sec", 4>>,
        <<"messages_consumed", 5>>, <<"records_per_sec", 6>> >>
    \o (IF n >= 8 THEN << <<"rebalance_time_ms", 7>>, <<"fetch_time_ms", 8>> >>
        ELSE <<>>)

\* the assignments of lines 234-240, in order: <<key, index into parts>>
Assignments(n) ==
    <<  <<"data_consumed_mb", 3>>, <<"throughput_mb_sec", 4>>,
        <<"messages_consumed", 5>>, <<"records_per_sec", 6>> >>
    \o (IF n >= 10 THEN << <<"rebalance_time_ms", 7>>, <<"fetch_time_ms", 8>> >>
        ELSE <<>>)

\* the assignments made before the first ValueError leaves the try block
Assigned(parts) ==
    LET plan == Assignments(Len(parts))
        bad == {j \in 1..Len(plan) : ~IsFloat(parts[plan[j][2]])}
        n == IF bad = {} THEN Len(plan)
             ELSE (CHOOSE j \in bad : \A k \in bad : j <= k) - 1
    IN  [k \in {plan[j][1] : j \in 1..n} |->
            FloatVal(parts[plan[CHOOSE j \in 1..n : plan[j][1] = k][2]])]

\* lines 231-242 on the selected line
ParseRow(line) ==
    CHOOSE m \in {IF Len(parts) < 6 THEN EmptyDict ELSE Assigned(parts) :
                    parts \in {[i \in 1..Len(line) |-> Strip(line[i])]}} : TRUE

\* the loop falling back to earlier lines until one yields metrics
ScanLinesFallback(lines) ==
    LET cands == {i \in Candidates(lines) : ParseRow(lines[i]) # EmptyDict}
    IN  IF cands = {} THEN EmptyDict
        ELSE ParseRow(lines[CHOOSE i \in cands : \A k \in cands : k <= i])

\* the loop of lines 229-243 over the split lines
ScanLines(lines) ==
    LET cands == Candidates(lines)
    IN  IF cands = {} THEN EmptyDict
        ELSE ParseRow(lines[CHOOSE i \in cands : \A k \in cands : k <= i])

parse_consumer_output(out) ==
    CHOOSE m \in {ScanLines(lines) : lines \in {StripSplit(out)}} : TRUE

----------------------------------------------------------------------------
(* How a call of subprocess.run can end.  kind "exit": the process ended   *)
(* with returncode, stdout and stderr; "timeout": TimeoutExpired after     *)
(* TimeoutSecs; "exception": any other exception, with str(e) = msg.       *)

Ending(kind, returncode, stdout, stderr, msg) ==
    [kind |-> kind, returncode |-> returncode, stdout |-> stdout,
     stderr |-> stderr, msg |-> msg]

Exit(returncode, stdout, stderr) == Ending("exit", returncode, stdout, stderr, "")

TimeoutExpired == Ending("timeout", 0, <<>>, "", "")

Raised(msg) == Ending("exception", 0, <<>>, "", msg)

\* seconds subprocess.run takes to end that way
Duration(e) ==
    CASE e.kind = "timeout" -> TimeoutSecs
      [] e.kind = "exception" -> 0
      [] OTHER -> 1

\* datetime.now().isoformat() at clock value t
Timestamp(t) == <<"iso", t>>

----------------------------------------------------------------------------
(* KafkaBenchmark.run_producer_test and run_consumer_test: the dict        *)
(* returned (ret) and whether it was appended to self.results (appended).  *)
(* cfg is the keyword dict of the call, t0 and t1 the clock values before  *)
(* and after subprocess.run.                                               *)

\* test_name or f"{topic}-producer"
TestName(cfg, suffix) ==
    IF "test_name" \in DOMAIN cfg THEN cfg["test_name"] ELSE <<cfg["topic"], suffix>>

\* the dict of a producer test whose tool exited 0 (lines 87-98)
ProducerSuccessDefaults(cfg, parsed, t0, t1) ==
    Update([k \in {"throughput_mb_sec", "records_per_sec", "avg_latency_ms"} |-> 0],
           Update(parsed,
                  [test_name |-> TestName(cfg, "-producer"), test_type |-> "producer",
                   topic |-> cfg["topic"], num_records |-> cfg["num_records"],
                   record_size |-> cfg["record_size"], acks |-> cfg["acks"],
                   status |-> "success", elapsed_time |-> t1 - t0,
                   timestamp |-> Timestamp(t1)]))

ProducerSuccess(cfg, parsed, t0, t1) ==
    Update(parsed,
           [test_name |-> TestName(cfg, "-producer"), test_type |-> "producer",
            topic |-> cfg["topic"], num_records |-> cfg["num_records"],
            record_size |-> cfg["record_size"], acks |-> cfg["acks"],
            status |-> "success", elapsed_time |-> t1 - t0,
            timestamp |-> Timestamp(t1)])

\* error_result of a test whose tool exited non-zero (lines 109-116, 203-210)
ErrorResult(test_name, test_type, cfg, e, t1) ==
    [test_name |-> test_name, test_type |-> test_type, topic |-> cfg["topic"],
     status |-> "failed", error |-> e.stderr, timestamp |-> Timestamp(t1)]

run_producer_test(cfg, e, t0, t1) ==
    LET test_name == TestName(cfg, "-producer")
    IN  CASE e.kind = "timeout" ->
               [ret |-> [test_name |-> test_name, test_type |-> "producer",
                         status |-> "timeout"],
                appended |-> FALSE]
          [] e.kind = "exception" ->
               [ret |-> [test_name |-> test_name, test_type |-> "producer",
                         status |-> "error", error |-> e.msg],
                appended |-> FALSE]
          [] e.kind = "exit" /\ e.returncode = 0 ->
               IF parse_producer_raises(e.stdout)
               THEN \* the ValueError of float() is caught by except Exception
                    [ret |-> [test_name |-> test_name, test_type |-> "producer",
                              status |-> "error",
                              error |-> "could not convert string to float"],
                     appended |-> FALSE]
               ELSE [ret |-> ProducerSuccess(cfg, parse_producer_output(e.stdout), t0, t1),
                     appended |-> TRUE]
          [] OTHER ->
               [ret |-> ErrorResult(test_name, "producer", cfg, e, t1),
                appended |-> TRUE]

\* the dict of a consumer test whose tool exited 0 (lines 184-193)
ConsumerSuccess(cfg, parsed, t0, t1) ==
    Update(parsed,
           [test_name |-> TestName(cfg, "-consumer"), test_type |-> "consumer",
            topic |-> cfg["topic"], messages |-> cfg["messages"],
            status |-> "success", elapsed_time |-> t1 - t0,
            timestamp |-> Timestamp(t1)])

run_consumer_test(cfg, e, t0, t1) ==
    LET test_name == TestName(cfg, "-consumer")
    IN  CASE e.kind = "timeout" ->
               [ret |-> [test_name |-> test_name, test_type |-> "consumer",
                         status |-> "timeout"],
                appended |-> FALSE]
          [] e.kind = "exception" ->
               [ret |-> [test_name |-> test_name, test_type |-> "consumer",
                         status |-> "error", error |-> e.msg],
                appended |-> FALSE]
          [] e.kind = "exit" /\ e.returncode = 0 ->
               [ret |-> ConsumerSuccess(cfg, parse_consumer_output(e.stdout), t0, t1),
                appended |-> TRUE]
          [] OTHER ->
               [ret |-> ErrorResult(test_name, "consumer", cfg, e, t1),
                appended |-> TRUE]

----------------------------------------------------------------------------
(* ReportGenerator.  A DataFrame is the sequence of its rows (dicts); a    *)
(* column exists when some row has the key, and a row without the key      *)
(* holds NaN there.                                                        *)

RECURSIVE SelectRows(_, _, _)
\* the rows of df whose key is val, in order
SelectRows(df, key, val) ==
    IF df = <<>> THEN <<>>
    ELSE (IF key \in DOMAIN Head(df) /\ Head(df)[key] = val THEN <<Head(df)>> ELSE <<>>)
         \o SelectRows(Tail(df), key, val)

\* successful_results of __init__
Successful(res) == SelectRows(res, "status", "success")

\* producer_df without the filter on test_type
producer_df_unfiltered(res) == Successful(res)

producer_df(res) == SelectRows(Successful(res), "test_type", "producer")

consumer_df(res) == SelectRows(Successful(res), "test_type", "consumer")

HasColumn(df, c) == \E i \in 1..Len(df) : c \in DOMAIN df[i]

RECURSIVE ColumnValues(_, _)
\* the non-NaN values of column c, in row order
ColumnValues(df, c) ==
    IF df = <<>> THEN <<>>
    ELSE (IF c \in DOMAIN Head(df) THEN <<Head(df)[c]>> ELSE <<>>)
         \o ColumnValues(Tail(df), c)

RECURSIVE Sum(_)
Sum(vs) == IF vs = <<>> THEN 0 ELSE Head(vs) + Sum(Tail(vs))

\* Series.max(), NaN skipped
SeriesMax(vs) == CHOOSE v \in {vs[i] : i \in 1..Len(vs)} : \A i \in 1..Len(vs) : vs[i] <= v

\* idxmax taking the last row holding the maximum
IdxMaxLast(df, c) ==
    LET m == SeriesMax(ColumnValues(df, c))
        at == {i \in 1..Len(df) : c \in DOMAIN df[i] /\ df[i][c] = m}
    IN  CHOOSE i \in at : \A k \in at : k <= i

\* Series.idxmax(): the first row holding the maximum, NaN skipped
IdxMax(df, c) ==
    LET m == SeriesMax(ColumnValues(df, c))
        at == {i \in 1..Len(df) : c \in DOMAIN df[i] /\ df[i][c] = m}
    IN  CHOOSE i \in at : \A k \in at : i <= k

\* one hundredth, in units of 1/Scale
Cent == Scale \div 100

\* round(sum / n, 2): to the nearest hundredth, halves to the even one
Round2(sum, n) ==
    LET d == n * Cent
        q == sum \div d
        r == sum % d
    IN  Cent * (IF 2 * r < d \/ (2 * r = d /\ q % 2 = 0) THEN q ELSE q + 1)

\* groupby('topic')[c].mean().round(2) at topic t; no key when all is NaN
GroupMean(df, t, c) ==
    LET vs == ColumnValues(SelectRows(df, "topic", t), c)
    IN  IF vs = <<>> THEN EmptyDict ELSE [k \in {c} |-> Round2(Sum(vs), Len(vs))]

topic_order == <<"p1-rf1", "p1-rf3", "p3-rf3", "p12-rf3", "p30-rf3">>

RECURSIVE Reindexed(_, _)
\* [t for t in topic_order if t in stats.index]
Reindexed(order, df) ==
    IF order = <<>> THEN <<>>
    ELSE (IF SelectRows(df, "topic", Head(order)) # <<>> THEN <<Head(order)>> ELSE <<>>)
         \o Reindexed(Tail(order), df)

\* the rows of a summary table: groupby, agg, reindex
Stats(df, cols) ==
    LET idx_ == Reindexed(topic_order, df)
        Row(t) == LET Merge[j \in 0..Len(cols)] ==
                          IF j = 0 THEN [topic |-> t]
                          ELSE Update(Merge[j - 1], GroupMean(df, t, cols[j]))
                  IN  Merge[Len(cols)]
    IN  [i \in 1..Len(idx_) |-> Row(idx_[i])]

\* _create_charts raises KeyError: a column it reads unguarded is missing
create_charts_raises(res) ==
    \/ ~HasColumn(Successful(res), "throughput_mb_sec")
    \/ ~HasColumn(Successful(res), "records_per_sec")

\* the subset the overall statistics are taken from
OverallDf(res) == IF producer_df(res) # <<>> THEN producer_df(res) ELSE consumer_df(res)

\* _generate_summary_html raises: idxmax of an all-NaN column
summary_raises(res) == ColumnValues(OverallDf(res), "throughput_mb_sec") = <<>>

\* the values _generate_summary_html puts in the report
summary(res) ==
    LET df == OverallDf(res)
        thr == ColumnValues(df, "throughput_mb_sec")
    IN  [kind |-> "report",
         max_throughput |-> SeriesMax(thr),
         avg_throughput |-> <<Sum(thr), Len(thr)>>,
         best_test |-> df[IdxMax(df, "throughput_mb_sec")]["test_name"],
         producer_stats |->
             IF producer_df(res) = <<>> THEN <<>>
             ELSE Stats(producer_df(res),
                        <<"throughput_mb_sec", "records_per_sec">>
                        \o (IF HasColumn(Successful(res), "avg_latency_ms")
                            THEN <<"avg_latency_ms">> ELSE <<>>)),
         consumer_stats |->
             IF consumer_df(res) = <<>> THEN <<>>
             ELSE Stats(consumer_df(res), <<"throughput_mb_sec", "records_per_sec">>)]

\* generate_html_report: None, an exception, or the report
generate_html_report(res) ==
    IF Successful(res) = <<>> THEN [kind |-> "None"]
    ELSE IF create_charts_raises(res) \/ summary_raises(res) THEN [kind |-> "raises"]
    ELSE summary(res)

----------------------------------------------------------------------------
(* Inputs of a run of main                                                 *)

\* producer_configs of main
MainProducerConfigs ==
    LET C(topic, acks, name) ==
            [topic |-> topic, num_records |-> NumRecords, record_size |-> RecordSize,
             acks |-> acks, test_name |-> <<name>>]
    IN  <<C("p1-rf1", "1", "1P-RF1 Producer"), C("p1-rf3", "all", "1P-RF3 Producer"),
          C("p3-rf3", "all", "3P-RF3 Producer"), C("p12-rf3", "all", "12P-RF3 Producer"),
          C("p30-rf3", "all", "30P-RF3 Producer")>>

\* consumer_configs of main when consumer tests are not skipped
MainConsumerConfigs ==
    LET C(topic, name) == [topic |-> topic, messages |-> NumRecords, test_name |-> <<name>>]
    IN  <<C("p1-rf1", "1P-RF1 Consumer"), C("p1-rf3", "1P-RF3 Consumer"),
          C("p3-rf3", "3P-RF3 Consumer"), C("p12-rf3", "12P-RF3 Consumer"),
          C("p30-rf3", "30P-RF3 Consumer")>>

\* the words of a producer summary line with the five numbers g
PerfLine(g) ==
    <<g[1], <<"records sent,">>, g[2], <<"records/sec">>, <<"(">>, g[3], <<"MB/sec),">>,
      g[4], <<"ms avg latency,">>, g[5], <<"ms max latency">> >>

\* stdout texts of the producer tool: nothing, a summary line, a summary
\* line with a malformed number
ProducerStdouts ==
    { <<>>,
      PerfLine(<< <<"1", "2">>, <<"2", "1">>, <<"1", "1">>, <<"2">>, <<"2", "2">> >>),
      PerfLine(<< <<"1", "2">>, <<".", ".">>, <<"1", "1">>, <<"2">>, <<"2", "2">> >>) }

HeaderLine == << <<"start.time">>, <<"end.time">>, <<"x">>, <<"x">>, <<"x">>, <<"x">> >>

\* stdout texts of the consumer tool: header and one row of six fields, a
\* row of three fields
ConsumerStdouts ==
    { <<HeaderLine, << <<"x">>, <<"x">>, <<"2", "1">>, <<"2">>, <<"1", "1">>, <<"1">> >> >>,
      << << <<"x">>, <<"x">>, <<"2", "1">> >> >> }

EndingsOver(stdouts) ==
    {Exit(0, s, "") : s \in stdouts}
    \cup {Exit(1, <<>>, "stderr text"), TimeoutExpired, Raised("No such file or directory")}

----------------------------------------------------------------------------
(* main: run_test_suite, save_results, generate_html_report                *)

Idle == /\ output = <<>>
        /\ metrics = [state |-> "idle"]

Init ==
    /\ pc = "producers"
    /\ producer_configs \in {SubSeq(MainProducerConfigs, 1, n) : n \in 0..MaxProducers}
    /\ consumer_configs \in
          {[none |-> TRUE, list |-> <<>>]}
          \cup {[none |-> FALSE, list |-> SubSeq(MainConsumerConfigs, 1, m)] :
                   m \in 0..MaxConsumers}
    /\ idx = 1
    /\ results = <<>>
    /\ returned = <<>>
    /\ endings = <<>>
    /\ invocations = <<>>
    /\ running = 0
    /\ now = 0
    /\ start_time = 0
    /\ last_end = 0
    /\ saved = [written |-> FALSE, content |-> <<>>]
    /\ report = [kind |-> "unbuilt"]
    /\ Idle

\* subprocess.run is entered for config cfg
StartTest(test_type, cfg, suffix, run_pc) ==
    /\ invocations' = Append(invocations,
                             [test_type |-> test_type, topic |-> cfg["topic"],
                              test_name |-> TestName(cfg, suffix), at |-> now])
    /\ running' = running + 1
    /\ start_time' = now
    /\ pc' = run_pc
    /\ UNCHANGED <<producer_configs, consumer_configs, idx, results, returned, endings,
                   now, last_end, saved, report, output, metrics>>

\* FinishTest without the except clauses: TimeoutExpired and other
\* exceptions of subprocess.run leave run_test_suite
FinishTestPropagating(e, r, sleep_pc) ==
    /\ endings' = Append(endings, e)
    /\ returned' = IF e.kind = "exit" THEN Append(returned, r.ret) ELSE returned
    /\ results' = IF e.kind = "exit" /\ r.appended THEN Append(results, r.ret) ELSE results
    /\ running' = running - 1
    /\ now' = now + Duration(e)
    /\ last_end' = now + Duration(e)
    /\ pc' = IF e.kind = "exit" THEN sleep_pc ELSE "crashed"
    /\ UNCHANGED <<producer_configs, consumer_configs, idx, invocations, start_time,
                   saved, report, output, metrics>>

\* subprocess.run ends as e and run_*_test returns r
FinishTest(e, r, sleep_pc) ==
    /\ endings' = Append(endings, e)
    /\ returned' = Append(returned, r.ret)
    /\ results' = IF r.appended THEN Append(results, r.ret) ELSE results
    /\ running' = running - 1
    /\ now' = now + Duration(e)
    /\ last_end' = now + Duration(e)
    /\ pc' = sleep_pc
    /\ UNCHANGED <<producer_configs, consumer_configs, idx, invocations, start_time,
                   saved, report, output, metrics>>

\* the next iteration without time.sleep(2)
CooldownSkipped(loop_pc) ==
    /\ idx' = idx + 1
    /\ pc' = loop_pc
    /\ UNCHANGED <<producer_configs, consumer_configs, results, returned, endings,
                   invocations, running, now, start_time, last_end, saved, report,
                   output, metrics>>

\* time.sleep(2), then the next iteration
Cooldown(loop_pc) ==
    /\ now' = now + CooldownSecs
    /\ idx' = idx + 1
    /\ pc' = loop_pc
    /\ UNCHANGED <<producer_configs, consumer_configs, results, returned, endings,
                   invocations, running, start_time, last_end, saved, report,
                   output, metrics>>

StartProducer ==
    /\ pc = "producers"
    /\ idx <= Len(producer_configs)
    /\ StartTest("producer", producer_configs[idx], "-producer", "producer_run")

FinishProducer ==
    /\ pc = "producer_run"
    /\ \E e \in EndingsOver(ProducerStdouts) :
          \E r \in {run_producer_test(producer_configs[idx], e, start_time,
                                      now + Duration(e))} :
             FinishTest(e, r, "producer_sleep")

ProducerCooldown ==
    /\ pc = "producer_sleep"
    /\ Cooldown("producers")

\* the producer loop is over (or was skipped)
EndProducers ==
    /\ pc = "producers"
    /\ idx > Len(producer_configs)
    /\ pc' = "consumers"
    /\ idx' = 1
    /\ UNCHANGED <<producer_configs, consumer_configs, results, returned, endings,
                   invocations, running, now, start_time, last_end, saved, report,
                   output, metrics>>

StartConsumer ==
    /\ pc = "consumers"
    /\ idx <= Len(consumer_configs.list)
    /\ StartTest("consumer", consumer_configs.list[idx], "-consumer", "consumer_run")

FinishConsumer ==
    /\ pc = "consumer_run"
    /\ \E e \in EndingsOver(ConsumerStdouts) :
          \E r \in {run_consumer_test(consumer_configs.list[idx], e, start_time,
                                      now + Duration(e))} :
             FinishTest(e, r, "consumer_sleep")

ConsumerCooldown ==
    /\ pc = "consumer_sleep"
    /\ Cooldown("consumers")

\* the consumer loop is over (or was skipped): run_test_suite returns
EndSuite ==
    /\ pc = "consumers"
    /\ idx > Len(consumer_configs.list)
    /\ pc' = "suite_done"
    /\ UNCHANGED <<producer_configs, consumer_configs, idx, results, returned, endings,
                   invocations, running, now, start_time, last_end, saved, report,
                   output, metrics>>

\* json.dump(self.results, f) as soon as the producer loop is over
save_results_after_producers ==
    /\ pc = "consumers"
    /\ idx = 1
    /\ ~saved.written
    /\ saved' = [written |-> TRUE, content |-> results]
    /\ UNCHANGED <<pc, producer_configs, consumer_configs, idx, results, returned, endings,
                   invocations, running, now, start_time, last_end, report,
                   output, metrics>>

\* json.dump(self.results, f)
save_results ==
    /\ pc = "suite_done"
    /\ saved' = [written |-> TRUE, content |-> results]
    /\ pc' = "saved"
    /\ UNCHANGED <<producer_configs, consumer_configs, idx, results, returned, endings,
                   invocations, running, now, start_time, last_end, report,
                   output, metrics>>

\* ReportGenerator(benchmark.results).generate_html_report(...)
GenerateReport ==
    /\ pc = "saved"
    /\ report' = generate_html_report(results)
    /\ pc' = "main_done"
    /\ UNCHANGED <<producer_configs, consumer_configs, idx, results, returned, endings,
                   invocations, running, now, start_time, last_end, saved,
                   output, metrics>>

\* the steps of run_test_suite
SuiteNext ==
    \/ StartProducer
    \/ FinishProducer
    \/ ProducerCooldown
    \/ EndProducers
    \/ StartConsumer
    \/ FinishConsumer
    \/ ConsumerCooldown
    \/ EndSuite

\* the steps of main
Next ==
    \/ SuiteNext
    \/ save_results
    \/ GenerateReport

Spec == Init /\ [][Next]_vars

\* run_test_suite alone; its single thread of control always takes its
\* next step
FairSuite == Init /\ [][SuiteNext]_vars /\ WF_vars(SuiteNext)

----------------------------------------------------------------------------
(* Properties of the suite                                                 *)

SuiteOver == pc \in {"suite_done", "saved", "main_done"}

\* the submitted configs, producers first, as <<test_type, test_name>>
Submitted ==
    [i \in 1..Len(producer_configs) |-> <<"producer", producer_configs[i]["test_name"]>>]
    \o [i \in 1..Len(consumer_configs.list) |->
           <<"consumer", consumer_configs.list[i]["test_name"]>>]

\* the subprocess.run calls made so far, as <<test_type, test_name>>
Invoked ==
    [i \in 1..Len(invocations) |-> <<invocations[i].test_type, invocations[i].test_name>>]

\* the outcome sequence, as <<test_type, test_name>>
Recorded(seq) == [i \in 1..Len(seq) |-> <<seq[i]["test_type"], seq[i]["test_name"]>>]

IsPrefix(s, t) == Len(s) <= Len(t) /\ s = SubSeq(t, 1, Len(s))

MetricKeys ==
    {"records_sent", "records_per_sec", "throughput_mb_sec", "avg_latency_ms",
     "max_latency_ms", "data_consumed_mb", "messages_consumed", "rebalance_time_ms",
     "fetch_time_ms"}

\* what the parser of the test's mode extracts from the stdout of call i
Extracted(i) ==
    IF returned[i]["test_type"] = "producer"
    THEN parse_producer_output(endings[i].stdout)
    ELSE parse_consumer_output(endings[i].stdout)

\* C1: once run_test_suite has returned, results holds one outcome per
\* submitted config, in submission order, whatever the outcomes were.
C1_AllOutcomesRecorded ==
    SuiteOver => Recorded(results) = Submitted

\* C2: every submitted config is invoked exactly once, in listed order and
\* producers first, and the suite always completes, whatever the outcomes.
C2_EveryConfigInvoked ==
    /\ [](IsPrefix(Invoked, Submitted))
    /\ <>(SuiteOver /\ Invoked = Submitted /\ Len(returned) = Len(Submitted))

\* a suite completed although its first test failed, timed out or errored
\* and further tests followed
C2_Witness ==
    /\ pc = "suite_done"
    /\ Len(Submitted) >= 2
    /\ Invoked = Submitted
    /\ returned[1]["status"] \in {"failed", "timeout", "error"}

\* C3: the status of every outcome is fixed by how the invocation ended:
\* exit 0 success, other exit failed with stderr, timeout without
\* diagnostic, any other failure error with its message.
C3_StatusFixedByEnding ==
    \A i \in 1..Len(returned) :
        LET e == endings[i]
            r == returned[i]
        IN  /\ (e.kind = "exit" /\ e.returncode = 0) => r["status"] = "success"
            /\ (e.kind = "exit" /\ e.returncode # 0) =>
                   r["status"] = "failed" /\ r["error"] = e.stderr
            /\ e.kind = "timeout" => r["status"] = "timeout" /\ "error" \notin DOMAIN r
            /\ e.kind = "exception" => r["status"] = "error" /\ r["error"] = e.msg

\* C4: exit code 0 gives status success whatever the stdout text is.
C4_ExitZeroIsSuccess ==
    \A i \in 1..Len(returned) :
        endings[i].returncode = 0 /\ endings[i].kind = "exit"
            => returned[i]["status"] \notin {"failed", "error"}

\* C5: an outcome carries metric fields only when its status is success,
\* and then exactly the fields, with the values, parsed from the stdout.
C5_MetricsOnlyFromStdout ==
    \A i \in 1..Len(returned) :
        LET r == returned[i]
            present == DOMAIN r \cap MetricKeys
        IN  IF r["status"] = "success"
            THEN /\ present = DOMAIN Extracted(i)
                 /\ \A k \in present : r[k] = Extracted(i)[k]
            ELSE present = {}

\* a success outcome with metrics, a success outcome without (nothing was
\* parsed) and an outcome that is no success
C5_Witness ==
    /\ \E i \in 1..Len(returned) :
          returned[i]["status"] = "success" /\ DOMAIN returned[i] \cap MetricKeys # {}
    /\ \E i \in 1..Len(returned) :
          returned[i]["status"] = "success" /\ DOMAIN returned[i] \cap MetricKeys = {}
    /\ \E i \in 1..Len(returned) : returned[i]["status"] # "success"

\* C6: the saved file holds one entry per executed config, in invocation
\* order, the failed, error and timeout ones included.
C6_SavedHoldsEveryOutcome ==
    saved.written => Recorded(saved.content) = Invoked

\* C14: every outcome, whatever its status, carries its status, the
\* measured elapsed seconds, a timestamp and the topic, test name and mode
\* of the config that produced it.
C14_OutcomeCarriesContext ==
    \A i \in 1..Len(returned) :
        LET r == returned[i]
        IN  /\ {"status", "elapsed_time", "timestamp", "topic", "test_name", "test_type"}
                   \subseteq DOMAIN r
            /\ r["status"] \in {"success", "failed", "timeout", "error"}
            /\ r["elapsed_time"] = Duration(endings[i])
            /\ r["topic"] = invocations[i].topic
            /\ r["test_name"] = invocations[i].test_name
            /\ r["test_type"] = invocations[i].test_type

\* C17: an invocation begins only when the previous one has ended and
\* CooldownSecs have passed since, the first consumer after the last
\* producer included, and at most one external process is alive.
C17_OneAtATimeAfterCooldown ==
    /\ running \in {0, 1}
    /\ running = 1 <=> pc \in {"producer_run", "consumer_run"}
    /\ Len(invocations) = Len(endings) + running
    /\ \A i \in 2..Len(invocations) :
          invocations[i].at >=
              invocations[i - 1].at + Duration(endings[i - 1]) + CooldownSecs
    /\ (running = 1 /\ Len(invocations) >= 2) => start_time >= last_end + CooldownSecs

\* the first consumer is running; the last producer before it timed out
C17_Witness ==
    /\ pc = "consumer_run"
    /\ Len(invocations) >= 2
    /\ invocations[Len(invocations) - 1].test_type = "producer"
    /\ endings[Len(endings)].kind = "timeout"
    /\ start_time = last_end + CooldownSecs
    /\ running = 1

\* C18: the file is written and the report is built only when every
\* config has been run and no process is alive, and both hold the final
\* outcome sequence.
C18_SaveAndReportAfterSuite ==
    /\ (saved.written \/ report.kind # "unbuilt") =>
          /\ Invoked = Submitted
          /\ Len(endings) = Len(Submitted)
          /\ running = 0
          /\ pc \in {"saved", "main_done"}
          /\ saved.written
          /\ saved.content = results
    /\ report.kind # "unbuilt" => report = generate_html_report(saved.content)

\* main is over after a suite of several tests: the file holds the
\* outcomes, a report was built
C18_Witness ==
    /\ pc = "main_done"
    /\ Len(Submitted) >= 2
    /\ Len(consumer_configs.list) >= 1
    /\ saved.written
    /\ saved.content = results
    /\ results # <<>>
    /\ report.kind = "report"

----------------------------------------------------------------------------
(* ReportGenerator on the results of any suite: the outcome sequences that *)
(* run_test_suite leaves in self.results for up to MaxOutcomes tests       *)

ReportProducerTopics == {"p3-rf3", "p1-rf1", "adhoc"}

ReportConsumerTopics == {"p1-rf1", "adhoc"}

\* producer endings that leave an entry in results: a summary line with
\* throughput 1 or 11, no summary line, a non-zero exit
ReportProducerEndings ==
    { Exit(0, PerfLine(<< <<"1", "2">>, <<"2", "1">>, <<"1">>, <<"2">>, <<"2", "2">> >>), ""),
      Exit(0, PerfLine(<< <<"1", "2">>, <<"2", "2">>, <<"1", "1">>, <<"1">>, <<"2", "2">> >>), ""),
      Exit(0, <<>>, ""),
      Exit(1, <<>>, "stderr text") }

\* consumer endings that leave a success entry in results: a row with
\* throughput 21, a row of three fields
ReportConsumerEndings ==
    { Exit(0, <<HeaderLine,
                << <<"x">>, <<"x">>, <<"2", "2">>, <<"2", "1">>, <<"1", "1">>, <<"1">> >> >>, ""),
      Exit(0, << << <<"x">>, <<"x">>, <<"2", "1">> >> >>, "") }

\* self.results after a suite of the producer tests ps and then the
\* consumer tests cs, each <<topic, ending>>; test i is named <<"test", i>>
SuiteResults(ps, cs) ==
    [i \in 1..Len(ps) |->
        run_producer_test([topic |-> ps[i][1], num_records |-> NumRecords,
                           record_size |-> RecordSize, acks |-> "all",
                           test_name |-> <<"test", i>>],
                          ps[i][2], i, i + 1).ret]
    \o [i \in 1..Len(cs) |->
        run_consumer_test([topic |-> cs[i][1], messages |-> NumRecords,
                           test_name |-> <<"test", Len(ps) + i>>],
                          cs[i][2], Len(ps) + i, Len(ps) + i + 1).ret]

InitReport ==
    /\ pc = "report_input"
    /\ \E n \in 0..MaxOutcomes :
          \E m \in 0..(MaxOutcomes - n) :
             \E ps \in [1..n -> ReportProducerTopics \X ReportProducerEndings],
                cs \in [1..m -> ReportConsumerTopics \X ReportConsumerEndings] :
                results = SuiteResults(ps, cs)
    /\ producer_configs = <<>>
    /\ consumer_configs = [none |-> TRUE, list |-> <<>>]
    /\ idx = 1
    /\ returned = <<>>
    /\ endings = <<>>
    /\ invocations = <<>>
    /\ running = 0
    /\ now = 0
    /\ start_time = 0
    /\ last_end = 0
    /\ saved = [written |-> FALSE, content |-> <<>>]
    /\ report = [kind |-> "unbuilt"]
    /\ Idle

\* ReportGenerator(results).generate_html_report(...)
BuildReport ==
    /\ pc = "report_input"
    /\ report' = generate_html_report(results)
    /\ pc' = "report_built"
    /\ UNCHANGED <<producer_configs, consumer_configs, idx, results, returned, endings,
                   invocations, running, now, start_time, last_end, saved,
                   output, metrics>>

NextReport == BuildReport

SpecReport == InitReport /\ [][NextReport]_vars

----------------------------------------------------------------------------
(* Properties of the report                                                *)

\* indexes of the success entries of results with the given test_type
SuccessOf(test_type) ==
    {i \in 1..Len(results) :
        results[i]["status"] = "success" /\ results[i]["test_type"] = test_type}

\* those of them that carry a throughput
WithThroughput(I) == {i \in I : "throughput_mb_sec" \in DOMAIN results[i]}

Thr(i) == results[i]["throughput_mb_sec"]

RECURSIVE SumThr(_)
SumThr(I) ==
    IF I = {} THEN 0
    ELSE LET i == CHOOSE j \in I : TRUE IN Thr(i) + SumThr(I \ {i})

\* C7: report building returns nothing exactly when there is no success
\* entry, and returns a report, without failing, whenever there is one.
C7_ReportIffSuccess ==
    pc = "report_built" =>
        IF SuccessOf("producer") \cup SuccessOf("consumer") = {}
        THEN report.kind = "None"
        ELSE report.kind = "report"

\* C8: the best configuration is the first run of maximum throughput among
\* the success producers if there are any, else among the success
\* consumers, and the peak throughput is that run's throughput.
C8_BestIsFirstMaximum ==
    (pc = "report_built" /\ report.kind = "report") =>
        LET S == IF SuccessOf("producer") # {} THEN SuccessOf("producer")
                 ELSE SuccessOf("consumer")
            T == WithThroughput(S)
            tops == {i \in T : \A j \in T : Thr(j) <= Thr(i)}
            best == CHOOSE i \in tops : \A j \in tops : i <= j
        IN  /\ report.best_test = results[best]["test_name"]
            /\ report.max_throughput = Thr(best)

\* a report whose best run is the first of two producers tied at the
\* maximum, while a success consumer has a higher throughput
C8_Witness ==
    /\ pc = "report_built"
    /\ report.kind = "report"
    /\ \E i, j \in WithThroughput(SuccessOf("producer")) :
          /\ i < j
          /\ Thr(i) = Thr(j)
          /\ Thr(i) = report.max_throughput
          /\ report.best_test = results[i]["test_name"]
    /\ \E c \in WithThroughput(SuccessOf("consumer")) : Thr(c) > report.max_throughput

\* the success producers of topic t that carry a throughput
ProducersOf(t) == {i \in WithThroughput(SuccessOf("producer")) : results[i]["topic"] = t}

\* C9 as stated: the producer row of a topic holds the exact arithmetic
\* mean of the throughput of the success producers of that topic.
C9_RowIsExactMean ==
    (pc = "report_built" /\ report.kind = "report") =>
        \A r \in 1..Len(report.producer_stats) :
            LET row == report.producer_stats[r]
                I == ProducersOf(row["topic"])
            IN  I # {} =>
                   /\ "throughput_mb_sec" \in DOMAIN row
                   /\ row["throughput_mb_sec"] * Cardinality(I) = SumThr(I)

Abs(x) == IF x < 0 THEN 0 - x ELSE x

\* C9 amended: the producer row of a topic holds the arithmetic mean of
\* the throughput of the success producers of that topic (and of them
\* only) rounded to two decimals: a multiple of 0.01 at most 0.005 from
\* the mean.
C9_RowIsRoundedMean ==
    (pc = "report_built" /\ report.kind = "report") =>
        \A r \in 1..Len(report.producer_stats) :
            LET row == report.producer_stats[r]
                I == ProducersOf(row["topic"])
                n == Cardinality(I)
            IN  IF I = {} THEN "throughput_mb_sec" \notin DOMAIN row
                ELSE /\ "throughput_mb_sec" \in DOMAIN row
                     /\ row["throughput_mb_sec"] % Cent = 0
                     /\ 2 * Abs(row["throughput_mb_sec"] * n - SumThr(I)) <= n * Cent

\* a producer row over same-topic success producers of distinct
\* throughputs whose mean is no multiple of 0.01
C9_Witness ==
    /\ pc = "report_built"
    /\ report.kind = "report"
    /\ \E r \in 1..Len(report.producer_stats) :
          LET I == ProducersOf(report.producer_stats[r]["topic"])
          IN  /\ \E i, j \in I : Thr(i) # Thr(j)
              /\ SumThr(I) % (Cardinality(I) * Cent) # 0

\* the topics with a success run of the mode
TopicsOf(test_type) == {results[i]["topic"] : i \in SuccessOf(test_type)}

\* where the topic is first met among the success runs of the mode
FirstAt(t, test_type) ==
    CHOOSE i \in SuccessOf(test_type) :
        /\ results[i]["topic"] = t
        /\ \A j \in SuccessOf(test_type) : results[j]["topic"] = t => i <= j

Canonical == {topic_order[k] : k \in 1..Len(topic_order)}

CanonicalRank(t) == CHOOSE k \in 1..Len(topic_order) : topic_order[k] = t

\* the rows of a summary table are in order: one row per topic with a
\* success run of the mode, canonical topics in canonical order, the
\* others in encounter order
RowsInOrder(rows, test_type) ==
    /\ {rows[r]["topic"] : r \in 1..Len(rows)} = TopicsOf(test_type)
    /\ \A r, q \in 1..Len(rows) :
          r < q =>
             /\ rows[r]["topic"] # rows[q]["topic"]
             /\ (rows[r]["topic"] \in Canonical /\ rows[q]["topic"] \in Canonical) =>
                    CanonicalRank(rows[r]["topic"]) < CanonicalRank(rows[q]["topic"])
             /\ (rows[r]["topic"] \notin Canonical /\ rows[q]["topic"] \notin Canonical) =>
                    FirstAt(rows[r]["topic"], test_type) < FirstAt(rows[q]["topic"], test_type)

\* C16: each summary table has one row for every topic with a success run
\* of its mode, canonical topics in canonical order and topics outside
\* the canonical list too, in encounter order.
C16_RowForEveryTopic ==
    (pc = "report_built" /\ report.kind = "report") =>
        /\ RowsInOrder(report.producer_stats, "producer")
        /\ RowsInOrder(report.consumer_stats, "consumer")

----------------------------------------------------------------------------
(* _parse_producer_output on its own                                       *)

\* the words of one to MaxNumLen characters over the digits and the dot
NumWords == UNION {[1..n -> Digits \cup {"."}] : n \in 1..MaxNumLen}

BaseGroups == << <<"1", "2">>, <<"2", "1">>, <<"1", "1">>, <<"2">>, <<"2", "2">> >>

\* a summary line (proper, after another word, with a phrase damaged,
\* followed by a second summary line) or no summary line
Shaped(g, shape) ==
    CASE shape = "line" -> PerfLine(g)
      [] shape = "prefixed" -> << <<"1">>, <<"x">> >> \o PerfLine(g)
      [] shape = "damaged" -> [PerfLine(g) EXCEPT ![4] = <<"x">>]
      [] shape = "twice" -> PerfLine(g) \o PerfLine(BaseGroups)
      [] OTHER -> << <<"x">> >>

InitParseProducer ==
    /\ pc = "parse_input"
    /\ \E a, b \in 1..5 :
          \E v, w \in NumWords :
             \E shape \in {"line", "prefixed", "damaged", "twice", "none"} :
                output = Shaped([[BaseGroups EXCEPT ![a] = v] EXCEPT ![b] = w], shape)
    /\ metrics = [state |-> "unparsed"]
    /\ producer_configs = <<>>
    /\ consumer_configs = [none |-> TRUE, list |-> <<>>]
    /\ idx = 1
    /\ results = <<>>
    /\ returned = <<>>
    /\ endings = <<>>
    /\ invocations = <<>>
    /\ running = 0
    /\ now = 0
    /\ start_time = 0
    /\ last_end = 0
    /\ saved = [written |-> FALSE, content |-> <<>>]
    /\ report = [kind |-> "unbuilt"]

\* metrics = self._parse_producer_output(output)
ParseProducerOutput ==
    /\ pc = "parse_input"
    /\ metrics' = IF parse_producer_raises(output)
                  THEN [state |-> "raised", error |-> "ValueError"]
                  ELSE [state |-> "returned", value |-> parse_producer_output(output)]
    /\ pc' = "parsed"
    /\ UNCHANGED <<suiteVars, output>>

NextParseProducer == ParseProducerOutput

SpecParseProducer == InitParseProducer /\ [][NextParseProducer]_vars

\* C10: on a text holding a summary line the parser returns exactly the
\* five fields with the values of capture groups 1-5 of that line; on any
\* other text it returns the empty dict; it never raises.
C10_FiveFieldsOrNone ==
    pc = "parsed" =>
        /\ metrics.state = "returned"
        /\ IF \E i \in 1..Len(output) : MatchAt(output, i)
           THEN LET i == CHOOSE j \in 1..Len(output) :
                            MatchAt(output, j) /\ \A k \in 1..(j - 1) : ~MatchAt(output, k)
                IN  /\ DOMAIN metrics.value = {ProducerFields[k] : k \in 1..5}
                    /\ metrics.value["records_sent"] = FloatVal(TrailingDigits(output[i]))
                    /\ metrics.value["records_per_sec"] = FloatVal(output[i + 2])
                    /\ metrics.value["throughput_mb_sec"] = FloatVal(output[i + 5])
                    /\ metrics.value["avg_latency_ms"] = FloatVal(output[i + 7])
                    /\ metrics.value["max_latency_ms"] = FloatVal(output[i + 9])
           ELSE metrics.value = EmptyDict

----------------------------------------------------------------------------
(* _parse_consumer_output on its own                                       *)

\* the fields of a row of the consumer tool: two time stamps, then numbers
\* that differ from field to field
BaseFields ==
    << <<"x">>, <<"x">>, <<"1", "1">>, <<"1", "2">>, <<"2", "1">>, <<"2", "2">>,
       <<"1", ".", "1">>, <<"1", ".", "2">>, <<"2", ".", "1">>, <<"2", ".", "2">>,
       <<".", "1">>, <<".", "2">> >>

\* field k of every longer row
BaseRow(k) == [i \in 1..k |-> IF i <= Len(BaseFields) THEN BaseFields[i] ELSE <<"1">>]

\* texts a field may hold instead: no number, a negative number, a padded
\* number, nothing, a lone dot, a number ending in a dot
FieldTexts ==
    { <<"x">>, <<"-", "1">>, <<" ", "2", " ">>, <<>>, <<".">>, <<"1", ".">> }

\* the lines an output is made of: blank, empty, header, indented header,
\* rows of six and ten fields, a row of three fields, a row of six fields
\* whose fourth is no number
LineKinds ==
    { << <<" ">> >>, << <<>> >>, HeaderLine,
      [HeaderLine EXCEPT ![1] = <<" ", "start.time">>],
      BaseRow(6), BaseRow(10), BaseRow(3),
      [BaseRow(6) EXCEPT ![4] = <<"x">>] }

InitParseConsumer ==
    /\ pc = "consumer_input"
    /\ \/ \E n \in 0..MaxLines : \E ls \in [1..n -> LineKinds] : output = ls
       \/ \E k \in 1..MaxFields :
             \E a, b \in 1..k :
                \E v \in FieldTexts \cup {BaseRow(k)[a]}, w \in FieldTexts \cup {BaseRow(k)[b]} :
                   output = <<HeaderLine, [[BaseRow(k) EXCEPT ![a] = v] EXCEPT ![b] = w]>>
    /\ metrics = [state |-> "unparsed"]
    /\ producer_configs = <<>>
    /\ consumer_configs = [none |-> TRUE, list |-> <<>>]
    /\ idx = 1
    /\ results = <<>>
    /\ returned = <<>>
    /\ endings = <<>>
    /\ invocations = <<>>
    /\ running = 0
    /\ now = 0
    /\ start_time = 0
    /\ last_end = 0
    /\ saved = [written |-> FALSE, content |-> <<>>]
    /\ report = [kind |-> "unbuilt"]

\* metrics = self._parse_consumer_output(output); ValueError and IndexError
\* are caught inside, nothing else is raised
ParseConsumerOutput ==
    /\ pc = "consumer_input"
    /\ metrics' = [state |-> "returned", value |-> parse_consumer_output(output)]
    /\ pc' = "consumer_parsed"
    /\ UNCHANGED <<suiteVars, output>>

NextParseConsumer == ParseConsumerOutput

SpecParseConsumer == InitParseConsumer /\ [][NextParseConsumer]_vars

\* the lines of the trimmed output
OutputLines == StripSplit(output)

\* line i is neither blank nor a header row
IsDataLine(i) ==
    /\ \E f \in 1..Len(OutputLines[i]) : Strip(OutputLines[i][f]) # <<>>
    /\ ~(OutputLines[i][1] # <<>> /\ Head(OutputLines[i][1]) = "start.time")

\* the last data line: every line after it is blank or a header row
SelectedLines ==
    {i \in 1..Len(OutputLines) :
        IsDataLine(i) /\ \A j \in (i + 1)..Len(OutputLines) : ~IsDataLine(j)}

\* the trimmed fields of line i
FieldsOf(i) == [f \in 1..Len(OutputLines[i]) |-> Strip(OutputLines[i][f])]

\* the 1-indexed field a metric is read from
FieldIndex(key) ==
    CASE key = "data_consumed_mb" -> 3
      [] key = "throughput_mb_sec" -> 4
      [] key = "messages_consumed" -> 5
      [] key = "records_per_sec" -> 6
      [] key = "rebalance_time_ms" -> 7
      [] key = "fetch_time_ms" -> 8

FourKeys == {"data_consumed_mb", "throughput_mb_sec", "messages_consumed", "records_per_sec"}

SixKeys == FourKeys \cup {"rebalance_time_ms", "fetch_time_ms"}

\* C11: the metrics come from one line only, the last line that is neither
\* blank nor a header row; when that line yields nothing the result is
\* empty, whatever the earlier lines hold.
C11_LastDataLineOnly ==
    pc = "consumer_parsed" =>
        /\ metrics.state = "returned"
        /\ IF SelectedLines = {} THEN metrics.value = EmptyDict
           ELSE \A i \in SelectedLines :
                   /\ metrics.value = ParseRow(OutputLines[i])
                   /\ \A key \in DOMAIN metrics.value :
                         /\ key \in SixKeys
                         /\ FieldIndex(key) <= Len(FieldsOf(i))
                         /\ metrics.value[key] = FloatVal(FieldsOf(i)[FieldIndex(key)])

\* a complete row, then a row of too few fields, then a header row: the
\* second is selected and nothing is returned
C11_Witness ==
    /\ pc = "consumer_parsed"
    /\ Len(output) = 3
    /\ output[1] = BaseRow(6)
    /\ output[2] = BaseRow(3)
    /\ output[3] = HeaderLine
    /\ metrics.value = EmptyDict

\* the fields 3 to 8 that line i has all convert
NumericRow(i) ==
    \A f \in 3..8 : f <= Len(FieldsOf(i)) => IsFloat(FieldsOf(i)[f])

\* C12: for a selected row of k numeric fields, k < 6 gives no metrics,
\* 6 <= k < 10 gives exactly the four metrics of fields 3-6, k >= 10 gives
\* in addition the rebalance and fetch times of fields 7 and 8; nothing is
\* raised.
C12_FieldCountDecides ==
    pc = "consumer_parsed" =>
        /\ metrics.state = "returned"
        /\ \A i \in SelectedLines :
              NumericRow(i) =>
                 LET k == Len(FieldsOf(i))
                     keys == IF k < 6 THEN {} ELSE IF k < 10 THEN FourKeys ELSE SixKeys
                 IN  /\ DOMAIN metrics.value = keys
                     /\ \A key \in keys :
                           metrics.value[key] = FloatVal(FieldsOf(i)[FieldIndex(key)])

\* a selected row of nine numeric fields gave the four metrics only
C12_Witness ==
    /\ pc = "consumer_parsed"
    /\ \E i \in SelectedLines :
          /\ Len(FieldsOf(i)) = 9
          /\ NumericRow(i)
          /\ \A f \in 3..8 : FieldsOf(i)[f] = BaseFields[f]
    /\ DOMAIN metrics.value = FourKeys

\* C13: when a field of the selected row fails conversion, that field
\* alone is missing: every other extractable field that converts is there.
C13_FailingFieldAloneOmitted ==
    pc = "consumer_parsed" =>
        /\ metrics.state = "returned"
        /\ \A i \in SelectedLines :
              LET k == Len(FieldsOf(i))
                  keys == IF k < 6 THEN {} ELSE IF k < 10 THEN FourKeys ELSE SixKeys
              IN  \A key \in keys :
                     IF IsFloat(FieldsOf(i)[FieldIndex(key)])
                     THEN /\ key \in DOMAIN metrics.value
                          /\ metrics.value[key] = FloatVal(FieldsOf(i)[FieldIndex(key)])
                     ELSE key \notin DOMAIN metrics.value

\* C15: every metric a parser returns is non-negative.
C15_MetricsNonNegative ==
    pc = "consumer_parsed" =>
        \A key \in DOMAIN metrics.value : metrics.value[key] >= 0

====
